---- MODULE Spec2Model ----
(***************************************************************************)
(* A model of collectd-plugin's time codec (src/api/cdtime.rs) and of the  *)
(* write_graphite example plugin (examples/write_graphite.rs).             *)
(*                                                                         *)
(* 64-bit unsigned integers are kept exactly.  TLC's integers are 32 bits  *)
(* wide, so a u64 is a little-endian tuple of 15-bit limbs; seven limbs    *)
(* (105 bits) hold every intermediate value of the codec before it is      *)
(* reduced to 64 bits.                                                     *)
(***************************************************************************)
EXTENDS Integers, Sequences, FiniteSets, TLC

\* ------------------------------------------------------------------------
\* Wide naturals
\* ------------------------------------------------------------------------

Base == 2^15

Limbs == 1..7

Zero == <<0, 0, 0, 0, 0, 0, 0>>

\* n is a TLC integer, 0 <= n < 2^31
FromInt(n) == <<n % Base, (n \div Base) % Base, n \div (Base * Base), 0, 0, 0, 0>>

One == FromInt(1)

\* a + b modulo 2^105: limb i and the carry c into it, the lower limbs in acc
RECURSIVE AddLoop(_, _, _, _, _)
AddLoop(a, b, i, c, acc) ==
    IF i > 7 THEN acc
    ELSE AddLoop(a, b, i + 1, (a[i] + b[i] + c) \div Base,
                 Append(acc, (a[i] + b[i] + c) % Base))

Add(a, b) == AddLoop(a, b, 1, 0, <<>>)

\* a - b modulo 2^105: limb i and the borrow c out of the limb below
RECURSIVE SubLoop(_, _, _, _, _)
SubLoop(a, b, i, c, acc) ==
    IF i > 7 THEN acc
    ELSE SubLoop(a, b, i + 1, IF a[i] - b[i] - c < 0 THEN 1 ELSE 0,
                 Append(acc, (Base + a[i] - b[i] - c) % Base))

Sub(a, b) == SubLoop(a, b, 1, 0, <<>>)

\* a * m modulo 2^105 for a limb m, 0 <= m < Base
RECURSIVE MulLoop(_, _, _, _, _)
MulLoop(a, m, i, c, acc) ==
    IF i > 7 THEN acc
    ELSE MulLoop(a, m, i + 1, (a[i] * m + c) \div Base,
                 Append(acc, (a[i] * m + c) % Base))

MulLimb(a, m) == MulLoop(a, m, 1, 0, <<>>)

\* limb j of a, 0 outside the seven limbs
LimbAt(a, j) == IF j \in Limbs THEN a[j] ELSE 0

\* a * 2^(15 * k) modulo 2^105
LimbsUp(a, k) ==
    <<LimbAt(a, 1 - k), LimbAt(a, 2 - k), LimbAt(a, 3 - k), LimbAt(a, 4 - k),
      LimbAt(a, 5 - k), LimbAt(a, 6 - k), LimbAt(a, 7 - k)>>

\* a \div 2^(15 * k)
LimbsDown(a, k) ==
    <<LimbAt(a, 1 + k), LimbAt(a, 2 + k), LimbAt(a, 3 + k), LimbAt(a, 4 + k),
      LimbAt(a, 5 + k), LimbAt(a, 6 + k), LimbAt(a, 7 + k)>>

\* a * m for a TLC integer m, 0 <= m < 2^30
Mul(a, m) == Add(MulLimb(a, m % Base), LimbsUp(MulLimb(a, m \div Base), 1))

Less(a, b) == \E i \in Limbs : a[i] < b[i] /\ \A j \in Limbs : j > i => a[j] = b[j]

Leq(a, b) == a = b \/ Less(a, b)

\* Long division by a TLC integer d, 0 < d <= 2^30, one bit at a time (2 * r + 1
\* stays below 2^31).  DivBits divides r * 2^n + v, for a remainder r < d carried
\* in from above and the n bits of v, giving the quotient's n bits and the
\* remainder.
RECURSIVE DivBits(_, _, _, _)
DivBits(r, v, d, n) ==
    IF n = 0 THEN <<0, r>>
    ELSE LET r2   == 2 * r + ((v \div 2^(n - 1)) % 2)
             rest == DivBits(IF r2 >= d THEN r2 - d ELSE r2, v, d, n - 1)
         IN  <<(IF r2 >= d THEN 2^(n - 1) ELSE 0) + rest[1], rest[2]>>

\* the quotient limbs l and above, and the remainder they leave
RECURSIVE DivFrom(_, _, _)
DivFrom(a, d, l) ==
    IF l > 7 THEN [q |-> <<>>, r |-> 0]
    ELSE LET up == DivFrom(a, d, l + 1)
             me == IF up.r = 0 /\ a[l] = 0 THEN <<0, 0>>
                   ELSE DivBits(up.r, a[l], d, 15)
         IN  [q |-> <<me[1]>> \o up.q, r |-> me[2]]

Div(a, d) == DivFrom(a, d, 1).q

Mod(a, d) == FromInt(DivFrom(a, d, 1).r)

\* x | y on n-bit integers
RECURSIVE OrInt(_, _, _)
OrInt(x, y, n) ==
    IF n = 0 THEN 0
    ELSE (IF x % 2 = 1 \/ y % 2 = 1 THEN 1 ELSE 0)
         + 2 * OrInt(x \div 2, y \div 2, n - 1)

BitOr(a, b) ==
    <<OrInt(a[1], b[1], 15), OrInt(a[2], b[2], 15), OrInt(a[3], b[3], 15),
      OrInt(a[4], b[4], 15), OrInt(a[5], b[5], 15), OrInt(a[6], b[6], 15),
      OrInt(a[7], b[7], 15)>>

\* ------------------------------------------------------------------------
\* u64 arithmetic of the codec
\* ------------------------------------------------------------------------

\* the low 64 bits: four whole limbs and four bits of the fifth
U64(a) == <<a[1], a[2], a[3], a[4], a[5] % 16, 0, 0>>

FitsU64(a) == U64(a) = a

U64Max == <<Base - 1, Base - 1, Base - 1, Base - 1, 15, 0, 0>>

\* x << 30 on a u64: the bits shifted above bit 63 are discarded
Shl30(a) == U64(LimbsUp(a, 2))

\* x >> 30
Shr30(a) == LimbsDown(a, 2)

\* x & 0x3fff_ffff
Low30(a) == <<a[1], a[2], 0, 0, 0, 0, 0>>

NANOS_PER_SEC == 1000000000

ROUND_NANOS == 500000000

ROUND_FRAC == 2^29

\* nanos_to_collectd with the rounding constant added before the shift
nanos_to_collectd_round_early(nanos) ==
    BitOr(Shl30(Div(nanos, NANOS_PER_SEC)),
          Div(Shl30(Add(Mod(nanos, NANOS_PER_SEC), FromInt(ROUND_NANOS))),
              NANOS_PER_SEC))

\* nanos_to_collectd with the seconds shifted by 29 bits (one limb and 14 bits)
nanos_to_collectd_shl29(nanos) ==
    BitOr(U64(LimbsUp(Mul(Div(nanos, NANOS_PER_SEC), 2^14), 1)),
          Div(U64(Add(Shl30(Mod(nanos, NANOS_PER_SEC)), FromInt(ROUND_NANOS))),
              NANOS_PER_SEC))

\* Convert epoch nanoseconds into collectd's 2^-30 second resolution
nanos_to_collectd(nanos) ==
    BitOr(Shl30(Div(nanos, NANOS_PER_SEC)),
          Div(U64(Add(Shl30(Mod(nanos, NANOS_PER_SEC)), FromInt(ROUND_NANOS))),
              NANOS_PER_SEC))

\* collectd_frac_nanos with a whole denominator added where half of it belongs
collectd_frac_nanos_round_up(cd) ==
    LimbsDown(Add(Mul(Low30(cd), NANOS_PER_SEC), FromInt(2^30)), 2)

\* the rounded fractional nanoseconds of a cdtime_t, before reduction to 64 bits
collectd_frac_nanos(cd) ==
    LimbsDown(Add(Mul(Low30(cd), NANOS_PER_SEC), FromInt(ROUND_FRAC)), 2)

\* the sum collectd_to_nanos computes, before reduction to 64 bits
collectd_to_nanos_wide(cd) ==
    Add(Mul(Shr30(cd), NANOS_PER_SEC), collectd_frac_nanos(cd))

\* Convert collectd's 2^-30 second resolution into epoch nanoseconds
collectd_to_nanos(cd) == U64(collectd_to_nanos_wide(cd))

\* ------------------------------------------------------------------------
\* State
\* ------------------------------------------------------------------------

VARIABLES
    tpc,      \* time codec: which conversion has been applied
    nsA,      \* a u64: epoch nanoseconds, or a raw cdtime_t
    nsB,      \* a second u64 of epoch nanoseconds
    cdA,      \* nanos_to_collectd(nsA)
    cdB,      \* nanos_to_collectd(nsB)
    src,      \* the cdtime_t handed to collectd_to_nanos
    back,     \* CdTime(collectd_to_nanos(src)).0
    ovf,      \* collectd_to_nanos left the 64 bits (panic in debug, wrap in release)
    stamp,    \* DateTime<Utc>::timestamp() and timestamp_subsec_nanos() of CdTime(back)
    dur,      \* a chrono Duration, as sign and magnitude in nanoseconds
    cdtime,   \* CdTime::from(dur): the nanoseconds held, or a panic
    gpc,      \* graphitize: how often it has been applied
    gin,      \* the &str handed to graphitize, a sequence of chars (code points)
    gout,     \* graphitize(gin): which Cow, and the text it derefs to
    gout2,    \* graphitize(gout.deref())
    rpc,      \* GraphiteManager::plugins: where the call stands
    logger,   \* whether the process already has a `log` logger installed
    config,   \* what from_collectd made of the configuration: Err, or the nodes
    next,     \* the index of the node the iterator yields next
    built,    \* the (name, plugin) pairs collected so far
    conns,    \* every TcpStream::connect made, in order: address, outcome, still open
    result,   \* what plugins returned
    pc,       \* per host thread: where its write_values call stands
    sink,     \* per host thread: the GraphitePlugin it calls
    list,     \* per host thread: the ValueList it hands over
    line,     \* per host thread: write_values' local `line`
    dt,       \* per host thread: write_values' local `dt`
    vi,       \* per host thread: the index of the value being written
    cur,      \* per host thread: write_value's `line`, complete, while it holds the lock
    ret,      \* per host thread: what write_values returned
    mutex,    \* per plugin: the thread holding `writer`'s lock, 0 when free
    received, \* per plugin: the bytes its stream has accepted, in order
    attempts, \* per plugin: every write call made on its stream, in order
    logged,   \* the number of error! calls
    faults    \* how many more writes may fall short or fail

timeVars == <<tpc, nsA, nsB, cdA, cdB, src, back, ovf, stamp, dur, cdtime>>

textVars == <<gpc, gin, gout, gout2>>

regVars == <<rpc, logger, config, next, built, conns, result>>

graphVars ==
    <<pc, sink, list, line, dt, vi, cur, ret, mutex, received, attempts, logged, faults>>

vars == <<timeVars, textVars, regVars, graphVars>>

\* ------------------------------------------------------------------------
\* Time codec: inputs
\* ------------------------------------------------------------------------

\* how far around each boundary the inputs reach
Edge == 1

\* 2^34 seconds: the first value the 34-bit seconds field cannot hold
Sec34 == LimbsUp(FromInt(16), 2)

\* 2^63 nanoseconds: the first magnitude past i64::MAX
Pow63 == LimbsUp(FromInt(8), 4)

SecsInputs ==
    {FromInt(s) : s \in 0..Edge} \cup {FromInt(1439981652)}
        \cup {Sub(Sec34, FromInt(j)) : j \in 1..(Edge + 1)}
        \cup {Add(Sec34, FromInt(j)) : j \in 0..Edge}
        \cup {Div(U64Max, NANOS_PER_SEC)}

RemInputs ==
    (0..Edge) \cup ((NANOS_PER_SEC - 1 - Edge)..(NANOS_PER_SEC - 1)) \cup {801860766}

FracInputs == (0..Edge) \cup ((2^30 - 1 - Edge)..(2^30 - 1)) \cup {2^29}

\* epoch nanoseconds over the whole u64 range
NanosInputs ==
    {n \in {Add(Mul(s, NANOS_PER_SEC), FromInt(r)) : s \in SecsInputs, r \in RemInputs} :
        FitsU64(n)} \cup {U64Max}

\* raw cdtime_t values: any seconds field with any fraction field
CdInputs ==
    {BitOr(Shl30(s), FromInt(f)) :
        s \in {t \in SecsInputs : Less(t, Sec34)}, f \in FracInputs}

DurInputs ==
    {[neg |-> sg, mag |-> FromInt(NANOS_PER_SEC)] : sg \in BOOLEAN}
        \cup {[neg |-> sg, mag |-> FromInt(m)] :
                sg \in BOOLEAN, m \in 1..(Edge + 1)}
        \cup {[neg |-> sg, mag |-> Sub(Pow63, FromInt(j))] :
                sg \in BOOLEAN, j \in 1..(Edge + 1)}
        \cup {[neg |-> sg, mag |-> Add(Pow63, FromInt(j))] :
                sg \in BOOLEAN, j \in 0..Edge}

NoTime == [secs |-> Zero, nanos |-> Zero]

NoCdTime == [panic |-> FALSE, ns |-> Zero]

\* ------------------------------------------------------------------------
\* Time codec: conversions
\* ------------------------------------------------------------------------

\* Duration::num_nanoseconds: None when the count does not fit an i64
num_nanoseconds_is_some(d) ==
    IF d.neg THEN Leq(d.mag, Pow63) ELSE Less(d.mag, Pow63)

\* (i64 as u64): the two's complement bit pattern
i64_as_u64(d) == IF d.neg THEN U64(Sub(Zero, d.mag)) ELSE d.mag

\* impl From<Duration> for CdTime
from_duration(d) ==
    IF num_nanoseconds_is_some(d)
    THEN [panic |-> FALSE, ns |-> i64_as_u64(d)]
    ELSE [panic |-> TRUE, ns |-> Zero]

\* impl From<CdTime> for DateTime<Utc>, read back through timestamp() and
\* timestamp_subsec_nanos()
to_datetime(ns) ==
    [secs |-> Div(ns, NANOS_PER_SEC), nanos |-> Mod(ns, NANOS_PER_SEC)]

NoCow == [cow |-> "Borrowed", str |-> <<>>]

\* graphitize has not been called
TextIdle == gpc = "off" /\ gin = <<>> /\ gout = NoCow /\ gout2 = NoCow

None == [some |-> FALSE, str |-> <<>>]

Some(s) == [some |-> TRUE, str |-> s]

NoConfig == [ok |-> FALSE, nodes |-> <<>>]

NoResult == [kind |-> "none", plugins |-> <<>>]

\* plugins has not been called
RegIdle ==
    /\ rpc = "off" /\ logger = FALSE /\ config = NoConfig /\ next = 1
    /\ built = <<>> /\ conns = <<>> /\ result = NoResult

NThreads == 2

Threads == 1..NThreads

\* the two plugins of the documented configuration
Sinks == {1, 2}

NoList ==
    [host |-> <<>>, plugin |-> <<>>, plugin_instance |-> None, type_ |-> <<>>,
     type_instance |-> None, time |-> 0, values |-> <<>>]

\* no thread calls write_values
GraphIdle ==
    /\ pc = [t \in Threads |-> "off"]
    /\ sink = [t \in Threads |-> 1]
    /\ list = [t \in Threads |-> NoList]
    /\ line = [t \in Threads |-> <<>>]
    /\ dt = [t \in Threads |-> <<>>]
    /\ vi = [t \in Threads |-> 0]
    /\ cur = [t \in Threads |-> <<>>]
    /\ ret = [t \in Threads |-> "none"]
    /\ mutex = [s \in Sinks |-> 0]
    /\ received = [s \in Sinks |-> <<>>]
    /\ attempts = [s \in Sinks |-> <<>>]
    /\ logged = 0
    /\ faults = 0

ZeroDuration == [neg |-> FALSE, mag |-> Zero]

\* what one run converts: a pair of epoch nanoseconds, one raw cdtime_t, or one
\* Duration
TimeInputs ==
    {<<a, b, ZeroDuration>> : a \in NanosInputs, b \in NanosInputs}
        \cup {<<c, c, ZeroDuration>> : c \in CdInputs}
        \cup {<<Zero, Zero, d>> : d \in DurInputs}

InitTime ==
    /\ tpc = "in"
    /\ \E i \in TimeInputs : nsA = i[1] /\ nsB = i[2] /\ dur = i[3]
    /\ cdA = Zero /\ cdB = Zero /\ src = Zero /\ back = Zero
    /\ ovf = FALSE
    /\ stamp = NoTime
    /\ cdtime = NoCdTime
    /\ TextIdle
    /\ RegIdle
    /\ GraphIdle

\* impl From<CdTime> for cdtime_t, applied to CdTime(nsA) and CdTime(nsB)
IntoCdtime ==
    /\ tpc = "in"
    /\ cdA' = nanos_to_collectd(nsA)
    /\ cdB' = nanos_to_collectd(nsB)
    /\ tpc' = "encoded"
    /\ UNCHANGED <<nsA, nsB, src, back, ovf, stamp, dur, cdtime>>
    /\ UNCHANGED <<textVars, regVars, graphVars>>

\* impl From<cdtime_t> for CdTime, applied to the encoding of nsA or to nsA
\* read as a raw cdtime_t
FromCdtime ==
    /\ tpc \in {"in", "encoded"}
    /\ src' = IF tpc = "encoded" THEN cdA ELSE nsA
    /\ back' = collectd_to_nanos(src')
    /\ ovf' = (back' # collectd_to_nanos_wide(src'))
    /\ tpc' = IF tpc = "encoded" THEN "roundtrip" ELSE "decoded"
    /\ UNCHANGED <<nsA, nsB, cdA, cdB, stamp, dur, cdtime>>
    /\ UNCHANGED <<textVars, regVars, graphVars>>

\* impl From<CdTime> for DateTime<Utc>
IntoDateTime ==
    /\ tpc \in {"roundtrip", "decoded"}
    /\ stamp' = to_datetime(back)
    /\ tpc' = IF tpc = "roundtrip" THEN "roundtrip_dated" ELSE "dated"
    /\ UNCHANGED <<nsA, nsB, cdA, cdB, src, back, ovf, dur, cdtime>>
    /\ UNCHANGED <<textVars, regVars, graphVars>>

\* impl From<Duration> for CdTime
FromDuration ==
    /\ tpc = "in"
    /\ cdtime' = from_duration(dur)
    /\ tpc' = "from_duration"
    /\ UNCHANGED <<nsA, nsB, cdA, cdB, src, back, ovf, stamp, dur>>
    /\ UNCHANGED <<textVars, regVars, graphVars>>

NextTime == IntoCdtime \/ FromCdtime \/ IntoDateTime \/ FromDuration

SpecTime == InitTime /\ [][NextTime]_vars

\* ------------------------------------------------------------------------
\* Time codec: properties
\* ------------------------------------------------------------------------

\* a and b differ by at most 1
Within1(a, b) == a = b \/ Add(a, One) = b \/ Add(b, One) = a

\* 2^34 * 10^9 nanoseconds: the first value whose seconds leave the 34-bit field
NanosLimit == Mul(Sec34, NANOS_PER_SEC)

\* C2, as claimed: for every u64 nanosecond value n,
\* collectd_to_nanos(nanos_to_collectd(n)) differs from n by at most 1 ns.
RoundTripEveryU64 == tpc = "roundtrip" => Within1(back, nsA)

\* C2, amended: for every nanosecond value n below 2^34 * 10^9 (whose whole seconds
\* fit the 34-bit field), collectd_to_nanos(nanos_to_collectd(n)) differs from n
\* by at most 1 ns.
RoundTripRepresentable ==
    tpc = "roundtrip" /\ Less(nsA, NanosLimit) => Within1(back, nsA)

\* a reference vector of tests::test_nanos_to_collectd has gone round
RoundTripWitness ==
    /\ tpc = "roundtrip"
    /\ nsA = Add(Mul(FromInt(1439981652), NANOS_PER_SEC), FromInt(801860766))
    /\ src = <<12241, 26275, 24660, 11176, 1, 0, 0>>
    /\ back = nsA

\* C5, as claimed: for all u64 nanosecond values a <= b,
\* nanos_to_collectd(a) <= nanos_to_collectd(b).
OrderEveryU64 == tpc = "encoded" /\ Leq(nsA, nsB) => Leq(cdA, cdB)

\* C5, amended: for all nanosecond values a <= b < 2^34 * 10^9,
\* nanos_to_collectd(a) <= nanos_to_collectd(b) as unsigned integers.
OrderRepresentable ==
    tpc = "encoded" /\ Leq(nsA, nsB) /\ Less(nsB, NanosLimit) => Leq(cdA, cdB)

\* the last nanosecond of second 0 and the first of second 1 have been encoded,
\* in order
OrderWitness ==
    /\ tpc = "encoded"
    /\ nsA = FromInt(NANOS_PER_SEC - 1)
    /\ nsB = FromInt(NANOS_PER_SEC)
    /\ Less(cdA, cdB)

\* C8: from_duration of a negative duration fails or saturates to a boundary
\* value; it never yields a CdTime holding another nanosecond count.
NegativeDurationRejected ==
    tpc = "from_duration" /\ dur.neg => cdtime.panic \/ cdtime.ns \in {Zero, U64Max}

\* C10: decoding any 64-bit cdtime_t, the rounded fractional nanoseconds are below
\* 10^9 and the sum stays within 64 bits, so the whole seconds of the decoded
\* value, and the timestamp() of its DateTime<Utc>, are the seconds field v >> 30.
DecodeNeverCarries ==
    tpc \in {"decoded", "dated", "roundtrip", "roundtrip_dated"} =>
        /\ Less(collectd_frac_nanos(src), FromInt(NANOS_PER_SEC))
        /\ ~ovf
        /\ Div(back, NANOS_PER_SEC) = Shr30(src)
        /\ tpc \in {"dated", "roundtrip_dated"} => stamp.secs = Shr30(src)

\* the largest cdtime_t, all 64 bits set, has been decoded and dated
DecodeWitness ==
    /\ tpc = "dated"
    /\ src = U64Max
    /\ stamp.secs = Sub(Sec34, One)
    /\ stamp.nanos = FromInt(NANOS_PER_SEC - 1)

\* ------------------------------------------------------------------------
\* graphitize
\* ------------------------------------------------------------------------

DOT == 46

DASH == 45

\* char::is_whitespace: the code points with the Unicode White_Space property
is_whitespace(c) ==
    c \in (9..13) \cup {32, 133, 160, 5760} \cup (8192..8202)
            \cup {8232, 8233, 8239, 8287, 12288}

\* char::is_control: the code points of general category Cc
is_control(c) == c \in (0..31) \cup (127..159)

\* the closure of lines 98 and 105
has_special_meaning(c) == c = DOT \/ is_whitespace(c) \/ is_control(c)

\* graphitize without the is_control test
graphitize_no_control(s) ==
    LET special(c) == c = DOT \/ is_whitespace(c)
    IN  IF ~(\E i \in 1..Len(s) : special(s[i]))
        THEN [cow |-> "Borrowed", str |-> s]
        ELSE [cow |-> "Owned",
              str |-> [i \in 1..Len(s) |-> IF special(s[i]) THEN DASH ELSE s[i]]]

\* If necessary removes any characters from a string that have special meaning
\* in graphite.
graphitize(s) ==
    LET needs_modifying == \E i \in 1..Len(s) : has_special_meaning(s[i])
    IN  IF ~needs_modifying
        THEN [cow |-> "Borrowed", str |-> s]
        ELSE [cow |-> "Owned",
              str |-> [i \in 1..Len(s) |->
                          IF has_special_meaning(s[i]) THEN DASH ELSE s[i]]]

\* the longest generated string
MaxLen == 3

\* '.', ' ', '\n' (whitespace and control), ESC (control only), U+00A0 (whitespace
\* only), '-', '@', 'a'
Chars == {46, 32, 10, 27, 160, 45, 64, 97}

\* the strings of tests::test_graphitize
TestStrings ==
    { <<104, 101, 108, 108, 111>>,
      <<104, 101, 108, 108, 111, 46, 109, 97, 116, 121>>,
      <<102, 111, 111, 64, 98, 97, 114, 46, 99, 111, 109>>,
      <<32, 32, 116, 101, 115, 116, 32, 10, 32>> }

TextInputs == TestStrings \cup UNION {[1..n -> Chars] : n \in 0..MaxLen}

TimeIdle ==
    /\ tpc = "off"
    /\ nsA = Zero /\ nsB = Zero /\ cdA = Zero /\ cdB = Zero /\ src = Zero
    /\ back = Zero /\ ovf = FALSE /\ stamp = NoTime /\ dur = ZeroDuration
    /\ cdtime = NoCdTime

InitText ==
    /\ gpc = "in"
    /\ gin \in TextInputs
    /\ gout = NoCow
    /\ gout2 = NoCow
    /\ TimeIdle
    /\ RegIdle
    /\ GraphIdle

Graphitize ==
    /\ gpc = "in"
    /\ gout' = graphitize(gin)
    /\ gpc' = "once"
    /\ UNCHANGED <<gin, gout2>>
    /\ UNCHANGED <<timeVars, regVars, graphVars>>

GraphitizeAgain ==
    /\ gpc = "once"
    /\ gout2' = graphitize(gout.str)
    /\ gpc' = "twice"
    /\ UNCHANGED <<gin, gout>>
    /\ UNCHANGED <<timeVars, regVars, graphVars>>

NextText == Graphitize \/ GraphitizeAgain

SpecText == InitText /\ [][NextText]_vars

\* C7: graphitize is total and character-wise: the output is as long as the input,
\* its character at i is '-' where the input's is '.', whitespace or control and
\* the input's otherwise; so the output holds no '.', whitespace or control
\* character, the borrowed path returns the input, and graphitize is idempotent.
GraphitizeCharWise ==
    gpc \in {"once", "twice"} =>
        /\ Len(gout.str) = Len(gin)
        /\ \A i \in 1..Len(gin) :
            gout.str[i] = IF gin[i] = DOT \/ is_whitespace(gin[i]) \/ is_control(gin[i])
                          THEN DASH ELSE gin[i]
        /\ \A i \in 1..Len(gout.str) :
            gout.str[i] # DOT /\ ~is_whitespace(gout.str[i]) /\ ~is_control(gout.str[i])
        /\ gout.cow = "Borrowed" => gout.str = gin
        /\ gpc = "twice" => gout2.str = gout.str /\ gout2.cow = "Borrowed"

\* "  test \n " of tests::test_graphitize has become "--test---", and a second
\* pass has left it alone
GraphitizeWitness ==
    /\ gpc = "twice"
    /\ gin = <<32, 32, 116, 101, 115, 116, 32, 10, 32>>
    /\ gout = [cow |-> "Owned", str |-> <<45, 45, 116, 101, 115, 116, 45, 45, 45>>]
    /\ gout2.str = gout.str

\* ------------------------------------------------------------------------
\* GraphiteManager::plugins
\* ------------------------------------------------------------------------

\* the most nodes a configuration holds
MaxNodes == 3

\* "iamprefix"
IAMPREFIX == <<105, 97, 109, 112, 114, 101, 102, 105, 120>>

\* the nodes of the documented configuration
NodeInputs ==
    { [name |-> "localhost.1", address |-> "127.0.0.1:20003", prefix |-> None],
      [name |-> "localhost.2", address |-> "127.0.0.1:20004",
       prefix |-> Some(IAMPREFIX)] }

ConfigInputs ==
    {NoConfig} \cup
    {[ok |-> TRUE, nodes |-> ns] : ns \in UNION {[1..n -> NodeInputs] : n \in 0..MaxNodes}}

\* the closure of lines 80-87 for one node: Err when the connection failed,
\* else the pair around the new stream, number id
node_item(node, connected, id) ==
    IF connected
    THEN [ok |-> TRUE, pair |-> [name |-> node.name, writer |-> id, prefix |-> node.prefix]]
    ELSE [ok |-> FALSE, pair |-> [name |-> node.name, writer |-> 0, prefix |-> None]]

\* a collect that leaves out the nodes whose connection failed
collect_skipping(vec, item) ==
    IF item.ok THEN [stop |-> FALSE, vec |-> Append(vec, item.pair)]
    ELSE [stop |-> FALSE, vec |-> vec]

\* collect::<Result<Vec<_>, _>>(): an Ok item joins the vector; the first Err stops
\* the iterator and drops the vector
collect(vec, item) ==
    IF item.ok THEN [stop |-> FALSE, vec |-> Append(vec, item.pair)]
    ELSE [stop |-> TRUE, vec |-> <<>>]

\* dropping the pairs collected so far closes their streams
drop_streams(cs) == [i \in 1..Len(cs) |-> [cs[i] EXCEPT !.open = FALSE]]

InitReg ==
    /\ rpc = "start"
    /\ logger \in BOOLEAN
    /\ config \in ConfigInputs
    /\ next = 1
    /\ built = <<>>
    /\ conns = <<>>
    /\ result = NoResult
    /\ TimeIdle
    /\ TextIdle
    /\ GraphIdle

\* lines 67-75: install the logger (expect panics when one is installed already),
\* then deserialize the configuration (? returns its error)
PluginsEnter ==
    /\ rpc = "start"
    /\ IF logger
       THEN rpc' = "panicked" /\ UNCHANGED <<logger, result>>
       ELSE /\ logger' = TRUE
            /\ IF config.ok
               THEN rpc' = "connecting" /\ UNCHANGED result
               ELSE rpc' = "returned" /\ result' = [kind |-> "Err", plugins |-> <<>>]
    /\ UNCHANGED <<config, next, built, conns>>
    /\ UNCHANGED <<timeVars, textVars, graphVars>>

\* lines 77-88: the iterator yields the next node, the closure connects to its
\* address, and collect takes the outcome
ConnectNode ==
    /\ rpc = "connecting"
    /\ next <= Len(config.nodes)
    /\ \E connected \in BOOLEAN :
        LET node == config.nodes[next]
            conn == [address |-> node.address, ok |-> connected, open |-> connected]
            got  == collect(built, node_item(node, connected, Len(conns) + 1))
        IN  /\ built' = got.vec
            /\ IF got.stop
               THEN /\ conns' = drop_streams(Append(conns, conn))
                    /\ result' = [kind |-> "Err", plugins |-> <<>>]
                    /\ rpc' = "returned"
                    /\ UNCHANGED next
               ELSE /\ conns' = Append(conns, conn)
                    /\ next' = next + 1
                    /\ UNCHANGED <<result, rpc>>
    /\ UNCHANGED <<logger, config>>
    /\ UNCHANGED <<timeVars, textVars, graphVars>>

\* line 90: the iterator is exhausted
PluginsReturn ==
    /\ rpc = "connecting"
    /\ next > Len(config.nodes)
    /\ result' = [kind |-> "Multiple", plugins |-> built]
    /\ rpc' = "returned"
    /\ UNCHANGED <<logger, config, next, built, conns>>
    /\ UNCHANGED <<timeVars, textVars, graphVars>>

NextReg == PluginsEnter \/ ConnectNode \/ PluginsReturn

SpecReg == InitReg /\ [][NextReg]_vars

\* C6: the nodes are connected one after another in configuration order.  If a
\* connection fails, plugins returns Err, registers no instance (the streams opened
\* for earlier nodes are dropped) and connects no later node.  If every connection
\* succeeds, plugins returns Multiple with exactly one (name, instance) pair per
\* node, in configuration order, each instance owning its own stream and its node's
\* prefix.
EagerAllOrNothing ==
    /\ Len(conns) <= Len(config.nodes)
    /\ \A i \in 1..Len(conns) : conns[i].address = config.nodes[i].address
    /\ \A i \in 1..Len(conns) : ~conns[i].ok => rpc = "returned" /\ i = Len(conns)
    /\ rpc = "returned" /\ (\E i \in 1..Len(conns) : ~conns[i].ok) =>
        /\ result = [kind |-> "Err", plugins |-> <<>>]
        /\ \A i \in 1..Len(conns) : ~conns[i].open
    /\ rpc = "returned" /\ config.ok /\ (\A i \in 1..Len(conns) : conns[i].ok) =>
        /\ result.kind = "Multiple"
        /\ Len(conns) = Len(config.nodes)
        /\ Len(result.plugins) = Len(config.nodes)
        /\ \A i \in 1..Len(config.nodes) :
            /\ result.plugins[i].name = config.nodes[i].name
            /\ result.plugins[i].prefix = config.nodes[i].prefix
            /\ result.plugins[i].writer = i
            /\ conns[i].open

\* the third of three nodes failed to connect after two had their instances built
EagerFailureWitness ==
    /\ rpc = "returned"
    /\ Len(config.nodes) = 3
    /\ Len(conns) = 3
    /\ conns[1].ok /\ conns[2].ok /\ ~conns[3].ok
    /\ result.kind = "Err"

\* ------------------------------------------------------------------------
\* GraphitePlugin::write_values and write_value
\* ------------------------------------------------------------------------

SPACE == 32

NEWLINE == 10

\* how many writes of one run may fall short or fail
MaxFaults == 1

\* the most values a generated ValueList holds
MaxValues == 2

\* "i.am": a prefix with a character graphitize would replace
DOTTED_PREFIX == <<105, 46, 97, 109>>

\* GraphitePlugin.prefix of the two plugins
prefix_of(s) == IF s = 1 THEN None ELSE Some(DOTTED_PREFIX)

\* i64::to_string
RECURSIVE to_string(_)
to_string(n) ==
    IF n < 0 THEN <<DASH>> \o to_string(0 - n)
    ELSE IF n < 10 THEN <<48 + n>>
    ELSE to_string(n \div 10) \o <<48 + (n % 10)>>

\* lines 143-163: the identifier every line of the batch starts with
identifier(prefix, l) ==
    (IF prefix.some THEN prefix.str \o <<DOT>> ELSE <<>>)
        \o graphitize(l.host).str
        \o <<DOT>>
        \o graphitize(l.plugin).str
        \o (IF l.plugin_instance.some
            THEN <<DASH>> \o graphitize(l.plugin_instance.str).str ELSE <<>>)
        \o <<DOT>>
        \o graphitize(l.type_).str
        \o (IF l.type_instance.some
            THEN <<DASH>> \o graphitize(l.type_instance.str).str ELSE <<>>)

\* value_line_start with the name appended for a single value too
value_line_start_always_named(ln, values, i) ==
    ln \o <<DOT>> \o graphitize(values[i].name).str

\* lines 169-176: the string handed to write_value for value i: `line` itself when
\* the list holds one value, else a clone with the value's name appended
value_line_start(ln, values, i) ==
    IF Len(values) = 1 THEN ln
    ELSE ln \o <<DOT>> \o graphitize(values[i].name).str

\* lines 118-122: write_value completes the line; val is the text Value displays as
complete_line(ln, val, d) == ln \o <<SPACE>> \o val \o <<SPACE>> \o d \o <<NEWLINE>>

\* a lock() that does not wait for the holder
lock_never_waits(owner) == TRUE

\* Mutex::lock returns once no thread holds the lock
lock_available(owner) == owner = 0

\* the byte counts a short write may accept of len bytes
short_counts(len) == {n \in {0, len \div 2, len - 1} : n >= 0 /\ n < len}

\* what Write::write may answer for a buffer of len bytes: Ok(len), or, while the
\* run has faults left, Ok(n) for a shorter n or Err
write_outcomes(len, budget) ==
    {[err |-> FALSE, n |-> len]} \cup
    (IF budget > 0
     THEN {[err |-> TRUE, n |-> 0]} \cup {[err |-> FALSE, n |-> k] : k \in short_counts(len)}
     ELSE {})

\* a loop that gives up the batch at the first failed write
next_value_until_failure(i, failed, k) == IF failed THEN k + 1 ELSE i + 1

\* lines 169-178: whatever the write did, the next value is next
next_value(i, failed, k) == i + 1

\* the value texts: "1" and "4.5"
ValueInputs ==
    { [name |-> <<>>, value |-> <<49>>],
      [name |-> <<97>>, value |-> <<52, 46, 53>>],
      [name |-> <<98, 10, 99>>, value |-> <<49>>] }

\* the lists of the concurrent runs: no value, one named value, two values
SharedLists ==
    { [NoList EXCEPT !.host = <<120>>, !.plugin = <<112>>, !.type_ = <<116>>,
                     !.time = 7],
      [NoList EXCEPT !.host = <<121>>, !.plugin = <<112>>, !.type_ = <<116>>,
                     !.time = 7, !.values = <<[name |-> <<97>>, value |-> <<49>>]>>],
      [NoList EXCEPT !.host = <<122>>, !.plugin = <<112>>, !.type_ = <<116>>,
                     !.time = 7,
                     !.values = << [name |-> <<97>>, value |-> <<49>>],
                                   [name |-> <<98>>, value |-> <<50>>] >>] }

\* the lists of the single-threaded runs: every optional part present and absent,
\* characters that need replacing, and 0..MaxValues values
RecordLists ==
    { [host |-> h, plugin |-> <<112>>, plugin_instance |-> pi, type_ |-> <<116>>,
       type_instance |-> ti, time |-> tm, values |-> vs] :
        h \in {<<104>>, <<104, 46, 120>>},
        pi \in {None, Some(<<105, 32>>)},
        ti \in {None, Some(<<106>>)},
        tm \in {7, 1439981652},
        vs \in UNION {[1..n -> ValueInputs] : n \in 0..MaxValues} }

GraphStart ==
    /\ line = [t \in Threads |-> <<>>]
    /\ dt = [t \in Threads |-> <<>>]
    /\ vi = [t \in Threads |-> 0]
    /\ cur = [t \in Threads |-> <<>>]
    /\ ret = [t \in Threads |-> "none"]
    /\ mutex = [s \in Sinks |-> 0]
    /\ received = [s \in Sinks |-> <<>>]
    /\ attempts = [s \in Sinks |-> <<>>]
    /\ logged = 0
    /\ faults = MaxFaults
    /\ TimeIdle
    /\ TextIdle
    /\ RegIdle

\* every host thread calls write_values once, on some plugin, with some list
Init ==
    /\ pc = [t \in Threads |-> "called"]
    /\ sink \in [Threads -> Sinks]
    /\ list \in [Threads -> SharedLists]
    /\ GraphStart

\* one host thread calls write_values
InitRecord ==
    /\ pc = [t \in Threads |-> IF t = 1 THEN "called" ELSE "off"]
    /\ \E s \in Sinks : sink = [t \in Threads |-> IF t = 1 THEN s ELSE 1]
    /\ \E l \in RecordLists : list = [t \in Threads |-> IF t = 1 THEN l ELSE NoList]
    /\ GraphStart

\* lines 143-165: build the identifier and the timestamp text
WriteValuesEnter(t) ==
    /\ pc[t] = "called"
    /\ line' = [line EXCEPT ![t] = identifier(prefix_of(sink[t]), list[t])]
    /\ dt' = [dt EXCEPT ![t] = to_string(list[t].time)]
    /\ vi' = [vi EXCEPT ![t] = 1]
    /\ pc' = [pc EXCEPT ![t] = "values"]
    /\ UNCHANGED <<sink, list, cur, ret, mutex, received, attempts, logged, faults>>
    /\ UNCHANGED <<timeVars, textVars, regVars>>

\* lines 169-176 and 117-127: take the next value, complete its line, and get the
\* exclusive lock on the writer
WriteValueLock(t) ==
    /\ pc[t] = "values"
    /\ vi[t] <= Len(list[t].values)
    /\ lock_available(mutex[sink[t]])
    /\ cur' = [cur EXCEPT ![t] =
                  complete_line(value_line_start(line[t], list[t].values, vi[t]),
                                list[t].values[vi[t]].value, dt[t])]
    /\ mutex' = [mutex EXCEPT ![sink[t]] = t]
    /\ pc' = [pc EXCEPT ![t] = "locked"]
    /\ UNCHANGED <<sink, list, line, dt, vi, ret, received, attempts, logged, faults>>
    /\ UNCHANGED <<timeVars, textVars, regVars>>

\* lines 128-131: one write of the line's bytes; an Err is logged; the guard drops
WriteValueWrite(t) ==
    /\ pc[t] = "locked"
    /\ \E out \in write_outcomes(Len(cur[t]), faults) :
        /\ received' = [received EXCEPT ![sink[t]] = @ \o SubSeq(cur[t], 1, out.n)]
        /\ attempts' = [attempts EXCEPT ![sink[t]] =
                           Append(@, [t |-> t, i |-> vi[t], line |-> cur[t],
                                      n |-> out.n, err |-> out.err])]
        /\ logged' = IF out.err THEN logged + 1 ELSE logged
        /\ faults' = IF out.err \/ out.n < Len(cur[t]) THEN faults - 1 ELSE faults
        /\ vi' = [vi EXCEPT ![t] = next_value(@, out.err, Len(list[t].values))]
    /\ mutex' = [mutex EXCEPT ![sink[t]] = 0]
    /\ pc' = [pc EXCEPT ![t] = "values"]
    /\ UNCHANGED <<sink, list, line, dt, cur, ret>>
    /\ UNCHANGED <<timeVars, textVars, regVars>>

\* line 180
WriteValuesReturn(t) ==
    /\ pc[t] = "values"
    /\ vi[t] > Len(list[t].values)
    /\ ret' = [ret EXCEPT ![t] = "Ok"]
    /\ pc' = [pc EXCEPT ![t] = "done"]
    /\ UNCHANGED <<sink, list, line, dt, vi, cur, mutex, received, attempts, logged, faults>>
    /\ UNCHANGED <<timeVars, textVars, regVars>>

Next ==
    \E t \in Threads :
        \/ WriteValuesEnter(t)
        \/ WriteValueLock(t)
        \/ WriteValueWrite(t)
        \/ WriteValuesReturn(t)

Spec == Init /\ [][Next]_vars

SpecRecord == InitRecord /\ [][Next]_vars

\* ------------------------------------------------------------------------
\* write_values: properties
\* ------------------------------------------------------------------------

\* the texts of a sequence, one after another
RECURSIVE Concat(_)
Concat(texts) == IF texts = <<>> THEN <<>> ELSE Head(texts) \o Concat(Tail(texts))

Orderings(n) == {p \in [1..n -> 1..n] : \A i, j \in 1..n : p[i] = p[j] => i = j}

\* the write calls thread t has made on plugin s, in order
AttemptsOf(t, s) == LET Mine(e) == e.t = t IN SelectSeq(attempts[s], Mine)

AllReturned == \A t \in Threads : pc[t] \in {"done", "off"}

\* C1: when the threads' write_value calls on one plugin have returned, whatever
\* each write answered, the bytes its stream received are the callers' complete
\* lines, each with its newline, in some order.
CompleteLinesReceived ==
    AllReturned =>
        \A s \in Sinks :
            \E p \in Orderings(Len(attempts[s])) :
                received[s] = Concat([i \in 1..Len(attempts[s]) |-> attempts[s][p[i]].line])

\* C3: a thread that has reached value i of its k values has made exactly i - 1
\* write calls (one more while it holds the lock), one per value in value order,
\* on its own plugin and none on another, however many writes failed, there or on
\* the other plugin; and write_values returns Ok(()) after k of them.
EveryValueAttempted ==
    \A t \in Threads :
        /\ \A s \in Sinks \ {sink[t]} : AttemptsOf(t, s) = <<>>
        /\ pc[t] \in {"values", "locked", "done"} =>
            LET mine == AttemptsOf(t, sink[t])
            IN  /\ Len(mine) = vi[t] - 1
                /\ \A i \in 1..Len(mine) : mine[i].i = i
        /\ pc[t] = "done" =>
            /\ ret[t] = "Ok"
            /\ Len(AttemptsOf(t, sink[t])) = Len(list[t].values)
        /\ ret[t] = "Ok" <=> pc[t] = "done"

\* on one plugin the first write of a two-value batch failed, its second value was
\* written all the same, and so was the batch of the other thread, after it; both
\* calls returned
AttemptsAfterFailureWitness ==
    /\ AllReturned
    /\ \E s \in Sinks :
        /\ Len(attempts[s]) = 4
        /\ attempts[s][1].err /\ attempts[s][1].i = 1
        /\ attempts[s][2].t = attempts[s][1].t /\ attempts[s][2].i = 2
        /\ attempts[s][3].t # attempts[s][1].t
        /\ logged = 1

\* sanitize of section 4.2, character by character
Sanitized(str) ==
    [i \in 1..Len(str) |->
        IF str[i] = DOT \/ is_whitespace(str[i]) \/ is_control(str[i]) THEN DASH ELSE str[i]]

\* the record line of value i, as section 4.3 composes it
RecordLine(prefix, l, i) ==
    (IF prefix.some THEN prefix.str \o <<DOT>> ELSE <<>>)
        \o Sanitized(l.host) \o <<DOT>> \o Sanitized(l.plugin)
        \o (IF l.plugin_instance.some
            THEN <<DASH>> \o Sanitized(l.plugin_instance.str) ELSE <<>>)
        \o <<DOT>> \o Sanitized(l.type_)
        \o (IF l.type_instance.some
            THEN <<DASH>> \o Sanitized(l.type_instance.str) ELSE <<>>)
        \o (IF Len(l.values) = 1 THEN <<>> ELSE <<DOT>> \o Sanitized(l.values[i].name))
        \o <<SPACE>> \o l.values[i].value \o <<SPACE>> \o to_string(l.time)
        \o <<NEWLINE>>

\* C4: for a list of k values exactly k lines are handed to the writer, in value
\* order; each is the identifier (prefix unsanitized, optional parts present
\* exactly when the field is), the sanitized value name unless k = 1, then " "
\* value " " timestamp "\n" with the one timestamp of the list.
RecordComposition ==
    \A t \in Threads :
        pc[t] = "done" =>
            LET mine == AttemptsOf(t, sink[t])
            IN  /\ Len(mine) = Len(list[t].values)
                /\ \A i \in 1..Len(mine) :
                    mine[i].line = RecordLine(prefix_of(sink[t]), list[t], i)

\* a list with one value named "a", both instances and the prefix has produced
\* the one line "i.am.h-x.p-i-.t-j 4.5 1439981652\n"
RecordWitness ==
    /\ pc[1] = "done"
    /\ Len(list[1].values) = 1
    /\ list[1].values[1].name = <<97>>
    /\ Len(attempts[2]) = 1
    /\ attempts[2][1].line =
        <<105, 46, 97, 109, 46, 104, 45, 120, 46, 112, 45, 105, 45, 46, 116, 45, 106,
          32, 52, 46, 53, 32, 49, 52, 51, 57, 57, 56, 49, 54, 53, 50, 10>>

\* C9, as claimed: the lines of one batch reach the plugin's stream next to each
\* other, no line of another batch between them.
BatchesContiguous ==
    \A s \in Sinks :
        \A i, j, k \in 1..Len(attempts[s]) :
            i < j /\ j < k /\ attempts[s][i].t = attempts[s][k].t
                => attempts[s][j].t = attempts[s][i].t

\* C9, amended: each record line is written under the plugin's lock, one thread at
\* a time, so the stream holds, write call after write call, the bytes each call
\* accepted of its own line, and the lines of one batch come in value order; a line
\* of another batch may come between two lines of a batch.
LinesSerialised ==
    \A s \in Sinks :
        /\ Cardinality({t \in Threads : pc[t] = "locked" /\ sink[t] = s}) <= 1
        /\ \A t \in Threads : (pc[t] = "locked" /\ sink[t] = s) <=> mutex[s] = t
        /\ received[s] =
            Concat([i \in 1..Len(attempts[s]) |->
                        SubSeq(attempts[s][i].line, 1, attempts[s][i].n)])
        /\ \A i, j \in 1..Len(attempts[s]) :
            i < j /\ attempts[s][i].t = attempts[s][j].t
                => attempts[s][i].i < attempts[s][j].i

\* two two-value batches on one plugin, their lines alternating
InterleavedBatchesWitness ==
    \E s \in Sinks :
        /\ Len(attempts[s]) = 4
        /\ attempts[s][1].t = attempts[s][3].t
        /\ attempts[s][2].t = attempts[s][4].t
        /\ attempts[s][1].t # attempts[s][2].t
        /\ \A i \in 1..4 : attempts[s][i].n = Len(attempts[s][i].line)

====
